---------------------------- MODULE Spec2Model ----------------------------
(***************************************************************************)
(* Model of the telemetry core of src/dashboard/app.py: the mode state     *)
(* machine, the target table, the drift integration, the clamping and the  *)
(* inference / expert-system stage of the /api/telemetry handler.          *)
(*                                                                         *)
(* Numbers.  The handler computes in binary floating point.  The model     *)
(* keeps every channel as a fixed-point integer and rounds each product to *)
(* the nearest representable value (ties to even), as IEEE arithmetic      *)
(* does at its own, finer, resolution.  Units of the running program:      *)
(*   RMS       1e-4   (0.05  is 500)                                        *)
(*   Kurtosis  1e-2   (2.2   is 220)                                        *)
(*   Temp      1e-1   (48.0  is 480)                                        *)
(*   FanSpeed  1      (1800  is 1800)                                       *)
(* Time is counted in whole seconds since process start.                   *)
(***************************************************************************)
EXTENDS Integers, Sequences, FiniteSets, TLC

VARIABLES
    clock,              \* time.time(), seconds since the module was imported
    current_mode,       \* global current_mode
    last_state_change,  \* global last_state_change
    sim_state,          \* global sim_state
    model,              \* global model: TRUE when load_ai_model() returned a model
    resp,               \* the record the last tick returned (locals of the handler)
    ticks,              \* number of requests served so far
    pc,                 \* per request thread: position in the handler
    loc,                \* per request thread: locals of the handler
    origin              \* the globals the run started from

vars == <<clock, current_mode, last_state_change, sim_state, model, resp, ticks, pc, loc,
          origin>>

(***************************************************************************)
(* Bounds of the model.                                                    *)
(***************************************************************************)
MaxTicks == 4
MaxDriftSteps == 400

(***************************************************************************)
(* Program constants.                                                      *)
(***************************************************************************)
boot_start_time == 0
BootDuration == 10
DwellInterval == 60
FaultThreshold == 70
GainFast == 5
GainTemp == 2
KurtosisFloor == 100
RmsFloor == 0

Abs(x) == IF x < 0 THEN -x ELSE x

Max(a, b) == IF a >= b THEN a ELSE b

\* n / d rounded to the nearest integer, ties to the even one (d > 0).
RoundDiv(n, d) ==
    LET q == n \div d
        r == n % d
    IN  IF 2 * r < d THEN q
        ELSE IF 2 * r > d THEN q + 1
        ELSE IF q % 2 = 0 THEN q ELSE q + 1

REPAIR_GUIDE ==
    [ BOOT           |-> "System initializing... Calibrating sensors.",
      OPTIMAL        |-> "System operating within normal parameters. Efficiency: 98%.",
      CRITICAL_FAULT |-> "CRITICAL ANOMALY DETECTED. IMMEDIATE ACTION REQUIRED.",
      BEARING_FAIL   |-> "DIAGNOSIS: Inner Race Bearing Spalling. REPAIR: Replace Drive-End (DE) Bearing.",
      UNBALANCE      |-> "DIAGNOSIS: Rotor Assembly Imbalance. REPAIR: Clean fan blades to remove debris buildup.",
      HIGH_VIBE      |-> "DIAGNOSIS: Loose Mechanical Mounting. REPAIR: Tighten foundation bolts to 45Nm torque." ]

Modes == {"BOOT_SEQUENCE", "HEALTHY", "BEARING_WEAR", "UNBALANCE"}

get_target_state(mode) ==
    IF mode = "HEALTHY" THEN [RMS |-> 500, Kurtosis |-> 220, Temp |-> 480, Speed |-> 1800]
    ELSE IF mode = "BEARING_WEAR" THEN [RMS |-> 3800, Kurtosis |-> 750, Temp |-> 720, Speed |-> 1750]
    ELSE IF mode = "UNBALANCE" THEN [RMS |-> 5500, Kurtosis |-> 280, Temp |-> 580, Speed |-> 1780]
    ELSE IF mode = "BOOT_SEQUENCE" THEN [RMS |-> 200, Kurtosis |-> 150, Temp |-> 350, Speed |-> 500]
    ELSE [RMS |-> 500, Kurtosis |-> 200, Temp |-> 450, Speed |-> 1800]

\* sim_state as the module sets it at import.
ColdState == [RMS |-> 0, Kurtosis |-> 0, Temp |-> 250, FanSpeed |-> 0]

(***************************************************************************)
(* 1. State machine logic (lines 78-95).  draw.r is random.random() in     *)
(* hundredths, draw.choice is random.choice(scenarios).                    *)
(***************************************************************************)
Scenarios == {"BEARING_WEAR", "UNBALANCE"}

ModeDraws == [r : {0, 70, 71, 99}, choice : Scenarios]

NoDraw == [r |-> 0, choice |-> "BEARING_WEAR"]

BootElapsed(now) == now - boot_start_time > BootDuration

\* Faulty variant: the dwell boundary itself already counts as elapsed.
DwellElapsed_AtBoundary(last, now) == now - last >= DwellInterval

DwellElapsed(last, now) == now - last > DwellInterval

DrawnMode(draw) == IF draw.r > FaultThreshold THEN draw.choice ELSE "HEALTHY"

\* Faulty variant: leaving Booting does not start the dwell timer.
StateMachine_NoTimerStart(mode, last, now, draw) ==
    IF mode = "BOOT_SEQUENCE"
    THEN IF BootElapsed(now)
         THEN [mode |-> "HEALTHY", last |-> last]
         ELSE [mode |-> mode, last |-> last]
    ELSE IF DwellElapsed(last, now)
         THEN [mode |-> DrawnMode(draw), last |-> now]
         ELSE [mode |-> mode, last |-> last]

StateMachine(mode, last, now, draw) ==
    IF mode = "BOOT_SEQUENCE"
    THEN IF BootElapsed(now)
         THEN [mode |-> "HEALTHY", last |-> now]
         ELSE [mode |-> mode, last |-> last]
    ELSE IF DwellElapsed(last, now)
         THEN [mode |-> DrawnMode(draw), last |-> now]
         ELSE [mode |-> mode, last |-> last]

\* The draws the handler makes for this request: none unless it re-evaluates.
DrawsFor(mode, last, now) ==
    IF mode # "BOOT_SEQUENCE" /\ DwellElapsed(last, now) THEN ModeDraws ELSE {NoDraw}

(***************************************************************************)
(* 2. Physics simulation (lines 97-105).  x += (target - x) * gain + noise *)
(***************************************************************************)
\* Faulty variant: the difference is taken the wrong way round.
Drift_Reversed(x, target, gain, noise) == x + RoundDiv((x - target) * gain, 100) + noise

Drift(x, target, gain, noise) == x + RoundDiv((target - x) * gain, 100) + noise

DriftStep(s, t, n) ==
    [ RMS      |-> Drift(s.RMS, t.RMS, GainFast, n.RMS),
      Kurtosis |-> Drift(s.Kurtosis, t.Kurtosis, GainFast, n.Kurtosis),
      Temp     |-> Drift(s.Temp, t.Temp, GainTemp, n.Temp),
      FanSpeed |-> Drift(s.FanSpeed, t.Speed, GainFast, n.FanSpeed) ]

\* random.uniform(-0.005, 0.005), (-0.1, 0.1), (-0.1, 0.1), (-5, 5): a multiple
\* of the half-width of each range.
NoiseOf(a, b) == [RMS |-> 50 * a, Kurtosis |-> 10 * b, Temp |-> a, FanSpeed |-> 5 * b]

ZeroNoise == NoiseOf(0, 0)

NoiseDraws == {NoiseOf(-1, -1), NoiseOf(1, 1)}

\* Clamp values to realistic positive ranges (lines 107-109): locals only.
ClampRms(s) == Max(RmsFloor, s.RMS)

ClampKurtosis(s) == Max(KurtosisFloor, s.Kurtosis)

(***************************************************************************)
(* 3. AI inference engine (lines 117-146).  outcome is what model.predict  *)
(* does on this request: it returns 0, returns 1, or raises.               *)
(***************************************************************************)
PredictOutcomes == {"ret0", "ret1", "raise"}

NoPredict == "none"

\* Faulty variant: the vibration level is looked at first, and alone.
ExpertSystem_RmsFirst(rms, kurtosis) ==
    IF rms > 3000 THEN REPAIR_GUIDE.UNBALANCE
    ELSE IF kurtosis > 450 THEN REPAIR_GUIDE.BEARING_FAIL
    ELSE REPAIR_GUIDE.HIGH_VIBE

ExpertSystem(rms, kurtosis) ==
    IF kurtosis > 450 THEN REPAIR_GUIDE.BEARING_FAIL
    ELSE IF rms > 3000 /\ kurtosis < 350 THEN REPAIR_GUIDE.UNBALANCE
    ELSE REPAIR_GUIDE.HIGH_VIBE

\* Faulty variant: the model is consulted before the boot check.
Inference_ModelFirst(mode, mdl, outcome, rms, kurtosis) ==
    IF mdl
    THEN [status |-> "OPTIMAL", status_code |-> 0,
          recommendation |-> REPAIR_GUIDE.OPTIMAL, predict_called |-> TRUE]
    ELSE IF mode = "BOOT_SEQUENCE"
    THEN [status |-> "INITIALIZING", status_code |-> 0,
          recommendation |-> REPAIR_GUIDE.BOOT, predict_called |-> FALSE]
    ELSE [status |-> "UNKNOWN", status_code |-> 0,
          recommendation |-> "System Analyzing...", predict_called |-> FALSE]

Inference(mode, mdl, outcome, rms, kurtosis) ==
    IF mode = "BOOT_SEQUENCE"
    THEN [status |-> "INITIALIZING", status_code |-> 0,
          recommendation |-> REPAIR_GUIDE.BOOT, predict_called |-> FALSE]
    ELSE IF mdl
    THEN IF outcome = "raise"
         THEN [status |-> "ERROR", status_code |-> 0,
               recommendation |-> "System Analyzing...", predict_called |-> TRUE]
         ELSE IF outcome = "ret1"
         THEN [status |-> "CRITICAL FAULT", status_code |-> 1,
               recommendation |-> ExpertSystem(rms, kurtosis), predict_called |-> TRUE]
         ELSE [status |-> "OPTIMAL", status_code |-> 0,
               recommendation |-> REPAIR_GUIDE.OPTIMAL, predict_called |-> TRUE]
    ELSE [status |-> "UNKNOWN", status_code |-> 0,
          recommendation |-> "System Analyzing...", predict_called |-> FALSE]

\* The outcomes predict can have on this request: none when it is not called.
OutcomesFor(mode, mdl) ==
    IF mode # "BOOT_SEQUENCE" /\ mdl THEN PredictOutcomes ELSE {NoPredict}

\* 4. JSON response (lines 148-159), with the inputs of the request kept beside it.
Response(mode, mdl, outcome, s, now, t, before) ==
    [ rms        |-> ClampRms(s),
      before     |-> before,
      kurtosis   |-> ClampKurtosis(s),
      mode_debug |-> mode,
      now        |-> now,
      targets    |-> t,
      outcome    |-> outcome,
      result     |-> Inference(mode, mdl, outcome, ClampRms(s), ClampKurtosis(s)) ]

NoResponse == [rms |-> 0, kurtosis |-> 0, mode_debug |-> "", now |-> 0,
               before |-> [mode |-> "", last |-> 0],
               targets |-> [RMS |-> 0, Kurtosis |-> 0, Temp |-> 0, Speed |-> 0],
               outcome |-> NoPredict,
               result |-> [status |-> "", status_code |-> 0, recommendation |-> "",
                           predict_called |-> FALSE]]

(***************************************************************************)
(* The program, one request at a time.                                     *)
(***************************************************************************)
Threads == {1, 2}

IdleThreads == [t \in Threads |-> "idle"]

ChannelOrder == <<"RMS", "Kurtosis", "Temp", "FanSpeed">>

NoLocals == [t \in Threads |-> [now |-> 0, noise |-> ZeroNoise, draw |-> NoDraw,
                                drew |-> FALSE, chan |-> 1, old |-> 0, acc |-> 0,
                                targets |-> [RMS |-> 0, Kurtosis |-> 0, Temp |-> 0,
                                             Speed |-> 0]]]

\* Seconds between one request and the next.
Dts == {10, 60, 61}

Globals(mode, last, s) == [mode |-> mode, last |-> last, sim |-> s]

\* The globals as the module sets them at import (lines 15-26).
ColdGlobals == Globals("BOOT_SEQUENCE", 0, ColdState)

Init ==
    /\ clock = 0
    /\ current_mode = "BOOT_SEQUENCE"
    /\ last_state_change = 0
    /\ sim_state = ColdState
    /\ model \in BOOLEAN
    /\ resp = NoResponse
    /\ ticks = 0
    /\ pc = IdleThreads
    /\ loc = NoLocals
    /\ origin = ColdGlobals

\* GET /api/telemetry, served alone from its first line to its last.
telemetry ==
    /\ ticks < MaxTicks
    /\ \E dt \in Dts, noise \in NoiseDraws :
      LET now == clock + dt IN
      \E draw \in DrawsFor(current_mode, last_state_change, now) :
        LET sm == StateMachine(current_mode, last_state_change, now, draw)
            t == get_target_state(sm.mode)
            s == DriftStep(sim_state, t, noise)
        IN  \E outcome \in OutcomesFor(sm.mode, model) :
              /\ clock' = now
              /\ current_mode' = sm.mode
              /\ last_state_change' = sm.last
              /\ sim_state' = s
              /\ resp' = Response(sm.mode, model, outcome, s, now, t,
                                  [mode |-> current_mode, last |-> last_state_change])
              /\ ticks' = ticks + 1
              /\ UNCHANGED <<model, pc, loc, origin>>

Next == telemetry

Spec == Init /\ [][Next]_vars

(***************************************************************************)
(* Properties of the program served one request at a time (Spec).          *)
(***************************************************************************)
Served == ticks > 0

NonBootModes == {"HEALTHY", "BEARING_WEAR", "UNBALANCE"}

\* C1: every tick made at a time t with 10 < t < 70 reports mode Healthy, and the
\* dwell timer was started by the tick that left Booting, after t = 10.
C1_HealthyFrom10To70 ==
    (Served /\ clock > 10 /\ clock < 70) =>
        /\ resp.mode_debug = "HEALTHY"
        /\ current_mode = "HEALTHY"
        /\ last_state_change > 10
        /\ last_state_change <= clock

\* C1 witness: a tick inside (10, 70) made after the tick that left Booting.
C1_Witness ==
    /\ Served /\ clock > 10 /\ clock < 70
    /\ resp.before.mode = "HEALTHY"
    /\ resp.mode_debug = "HEALTHY"
    /\ last_state_change < clock

\* The classification the heuristic variant and the rule engine give (spec 4.4, 4.5).
HeuristicCode(rms, kurtosis) == IF rms > 2000 \/ kurtosis > 400 THEN 1 ELSE 0

HeuristicClassification(rms, kurtosis) ==
    IF HeuristicCode(rms, kurtosis) = 1
    THEN [status |-> "CRITICAL FAULT", status_code |-> 1,
          recommendation |-> ExpertSystem(rms, kurtosis)]
    ELSE [status |-> "OPTIMAL", status_code |-> 0,
          recommendation |-> REPAIR_GUIDE.OPTIMAL]

Classification(r) ==
    [status |-> r.result.status, status_code |-> r.result.status_code,
     recommendation |-> r.result.recommendation]

\* C2: on a non-Booting tick where the model is present and predict raises, the
\* classification equals the heuristic's on the same features.
C2_FallbackIsHeuristic ==
    (Served /\ resp.mode_debug # "BOOT_SEQUENCE" /\ model /\ resp.outcome = "raise") =>
        Classification(resp) = HeuristicClassification(resp.rms, resp.kurtosis)

\* C3: with no model loaded, every non-Booting tick classifies with the heuristic.
C3_NoModelIsHeuristic ==
    (Served /\ resp.mode_debug # "BOOT_SEQUENCE" /\ ~model) =>
        /\ resp.result.status_code = HeuristicCode(resp.rms, resp.kurtosis)
        /\ resp.result.status =
             (IF HeuristicCode(resp.rms, resp.kurtosis) = 1 THEN "CRITICAL FAULT" ELSE "OPTIMAL")

\* C5: a tick whose mode after the state machine is Booting answers INITIALIZING
\* with the BOOT guidance and does not call predict.
C5_BootingIsInitializing ==
    (Served /\ resp.mode_debug = "BOOT_SEQUENCE") =>
        /\ resp.result.status = "INITIALIZING"
        /\ resp.result.recommendation = REPAIR_GUIDE.BOOT
        /\ ~resp.result.predict_called
        /\ resp.outcome = NoPredict

\* C5 witness: a Booting tick of a process that has a model loaded.
C5_Witness ==
    /\ Served /\ model
    /\ resp.mode_debug = "BOOT_SEQUENCE"
    /\ resp.result.status = "INITIALIZING"
    /\ sim_state.RMS < 0

\* C6: after every tick the persistent sim_state has rms >= 0 and kurtosis >= 1.0.
C6_ObservedStateClamped ==
    Served => (sim_state.RMS >= 0 /\ sim_state.Kurtosis >= 100)

\* C10: in a non-Booting mode a tick changes neither the mode nor the dwell timer
\* unless more than 60 s passed since the timer; when they have, the mode is drawn
\* anew and the timer is set to now, so re-evaluations are more than 60 s apart.
C10_DwellStep ==
    (current_mode # "BOOT_SEQUENCE" /\ ticks' = ticks + 1) =>
        IF clock' - last_state_change > 60
        THEN /\ current_mode' \in NonBootModes
             /\ last_state_change' = clock'
             /\ last_state_change' - last_state_change > 60
        ELSE /\ current_mode' = current_mode
             /\ last_state_change' = last_state_change

C10_DwellRule == [][C10_DwellStep]_vars

\* C10 witness: a second re-evaluation that drew the mode it already had.
C10_Witness ==
    /\ Served
    /\ resp.before.mode \in NonBootModes
    /\ resp.before.last > 71
    /\ last_state_change = clock
    /\ last_state_change - resp.before.last > 60
    /\ current_mode = resp.before.mode

(***************************************************************************)
(* The stages of the handler as functions of their inputs (SpecStages):    *)
(* the target table and the inference stage applied to a mode value and a  *)
(* feature vector drawn from a grid around the thresholds.                 *)
(***************************************************************************)
UnknownModes == {"OVERHEAT", "SHUTDOWN"}

RmsGrid == {-40, 500, 2000, 2001, 3000, 3001, 3500, 5500}

KurtosisGrid == {8, 220, 349, 350, 400, 401, 450, 451, 500, 750}

StageInputs ==
    { [RMS |-> r, Kurtosis |-> k, Temp |-> 480, FanSpeed |-> 1800] :
        r \in RmsGrid, k \in KurtosisGrid }

InitStages ==
    /\ clock = 0
    /\ current_mode \in Modes \cup UnknownModes
    /\ last_state_change = 0
    /\ sim_state \in StageInputs
    /\ model \in BOOLEAN
    /\ resp = NoResponse
    /\ ticks = 0
    /\ pc = IdleThreads
    /\ loc = NoLocals
    /\ origin = Globals(current_mode, 0, sim_state)

\* targets = get_target_state(current_mode)  (line 98)
TargetStage ==
    /\ resp.mode_debug = ""
    /\ resp' = [resp EXCEPT !.mode_debug = current_mode,
                            !.targets = get_target_state(current_mode)]
    /\ UNCHANGED <<clock, current_mode, last_state_change, sim_state, model, ticks, pc,
                   loc, origin>>

\* Clamping and inference on the features as they stand (lines 107-159).
InferenceStage ==
    /\ resp.mode_debug = current_mode
    /\ ticks = 0
    /\ \E outcome \in OutcomesFor(current_mode, model) :
         resp' = Response(current_mode, model, outcome, sim_state, clock, resp.targets,
                          resp.before)
    /\ ticks' = 1
    /\ UNCHANGED <<clock, current_mode, last_state_change, sim_state, model, pc, loc,
                   origin>>

NextStages == TargetStage \/ InferenceStage

SpecStages == InitStages /\ [][NextStages]_vars

\* C4: a non-Booting tick classified 1 takes the first matching rule: kurtosis > 4.5
\* BEARING_FAIL, else rms > 0.30 and kurtosis < 3.5 UNBALANCE, else HIGH_VIBE; and
\* rms 0.35 with kurtosis 5.0 is BEARING_FAIL.
C4_OrderedRules ==
    (Served /\ resp.mode_debug # "BOOT_SEQUENCE" /\ resp.result.status_code = 1) =>
        /\ resp.result.status = "CRITICAL FAULT"
        /\ resp.kurtosis > 450 => resp.result.recommendation = REPAIR_GUIDE.BEARING_FAIL
        /\ (resp.kurtosis <= 450 /\ resp.rms > 3000 /\ resp.kurtosis < 350) =>
               resp.result.recommendation = REPAIR_GUIDE.UNBALANCE
        /\ (resp.kurtosis <= 450 /\ ~(resp.rms > 3000 /\ resp.kurtosis < 350)) =>
               resp.result.recommendation = REPAIR_GUIDE.HIGH_VIBE
        /\ (resp.rms = 3500 /\ resp.kurtosis = 500) =>
               resp.result.recommendation = REPAIR_GUIDE.BEARING_FAIL

\* C4 witness: rms 0.35, kurtosis 5.0 classified 1 and diagnosed as a bearing fault.
C4_Witness ==
    /\ Served /\ resp.mode_debug = "BEARING_WEAR"
    /\ resp.result.status_code = 1
    /\ resp.rms = 3500 /\ resp.kurtosis = 500
    /\ resp.result.recommendation = REPAIR_GUIDE.BEARING_FAIL

\* C7: a mode value outside the four modes gets exactly the Healthy target vector.
C7_UnknownModeIsHealthy ==
    (resp.mode_debug \notin Modes \cup {""}) =>
        resp.targets = [RMS |-> 500, Kurtosis |-> 220, Temp |-> 480, Speed |-> 1800]

(***************************************************************************)
(* The drift alone (SpecDrift): the target held constant, every noise draw *)
(* zero, the values kept a thousand times finer than in the other          *)
(* specifications so that one rounding step is small against a percent of  *)
(* the distance covered.                                                   *)
(***************************************************************************)
FineScale == 10 * 10 * 10

FineTarget(t) ==
    [RMS |-> t.RMS * FineScale, Kurtosis |-> t.Kurtosis * FineScale,
     Temp |-> t.Temp * FineScale, Speed |-> t.Speed * FineScale]

FineState(t) ==
    [RMS |-> t.RMS * FineScale, Kurtosis |-> t.Kurtosis * FineScale,
     Temp |-> t.Temp * FineScale, FanSpeed |-> t.Speed * FineScale]

\* Where a drift run starts: the cold state, or settled at a mode's target.
DriftStarts ==
    {FineState([RMS |-> 0, Kurtosis |-> 0, Temp |-> 250, Speed |-> 0])}
        \cup {FineState(get_target_state(m)) : m \in Modes}

InitDrift ==
    /\ clock = 0
    /\ current_mode \in Modes
    /\ last_state_change = 0
    /\ sim_state \in DriftStarts
    /\ model = FALSE
    /\ resp = [NoResponse EXCEPT !.mode_debug = current_mode,
                                 !.targets = FineTarget(get_target_state(current_mode))]
    /\ ticks = 0
    /\ pc = IdleThreads
    /\ loc = NoLocals
    /\ origin = Globals(current_mode, 0, sim_state)

\* Lines 102-105 with every random.uniform draw equal to zero.
ZeroNoiseStep ==
    /\ ticks < MaxDriftSteps
    /\ sim_state' = DriftStep(sim_state, resp.targets, ZeroNoise)
    /\ ticks' = ticks + 1
    /\ UNCHANGED <<clock, current_mode, last_state_change, model, resp, pc, loc, origin>>

NextDrift == ZeroNoiseStep

SpecDrift == InitDrift /\ [][NextDrift]_vars

Channels == {"RMS", "Kurtosis", "Temp", "FanSpeed"}

FastChannels == {"RMS", "Kurtosis", "FanSpeed"}

TargetOf(c) == IF c = "FanSpeed" THEN resp.targets.Speed ELSE resp.targets[c]

GainOf(c) == IF c = "Temp" THEN GainTemp ELSE GainFast

Dist(s, c) == Abs(TargetOf(c) - s[c])

NoOvershoot(c) ==
    /\ TargetOf(c) >= sim_state[c] => TargetOf(c) >= sim_state'[c]
    /\ TargetOf(c) <= sim_state[c] => TargetOf(c) <= sim_state'[c]

WithinOnePercentAt90(c) ==
    ticks' = 90 => 100 * Dist(sim_state', c) <= Dist(origin.sim, c)

\* C9 as stated: every channel not at its target gets strictly closer on every
\* step, never overshoots, and a gain 0.05 channel is within 1% of its initial
\* distance after 90 steps.
C9_StrictStep ==
    ticks' = ticks + 1 =>
        \A c \in Channels :
            /\ Dist(sim_state, c) > 0 => Dist(sim_state', c) < Dist(sim_state, c)
            /\ NoOvershoot(c)
            /\ c \in FastChannels => WithinOnePercentAt90(c)

C9_StrictlyCloserEveryStep == [][C9_StrictStep]_vars

\* C9 amended: the distance never grows and the target is never overshot; the
\* distance strictly shrinks whenever the increment (target - observed) * gain is
\* more than half a unit of the stored value; a gain 0.05 channel that started at
\* least 100000 units away is within 1% of that distance after 90 steps.
C9_AmendedStep ==
    ticks' = ticks + 1 =>
        \A c \in Channels :
            /\ Dist(sim_state', c) <= Dist(sim_state, c)
            /\ NoOvershoot(c)
            /\ Dist(sim_state, c) * GainOf(c) > 50 => Dist(sim_state', c) < Dist(sim_state, c)
            /\ (c \in FastChannels /\ Dist(origin.sim, c) >= 100000) =>
                   WithinOnePercentAt90(c)

C9_CloserUntilResolution == [][C9_AmendedStep]_vars

\* C9 witness: 90 steps from the cold state toward the bearing-wear target: every
\* fast channel is within 1% of its initial distance and not yet at the target.
C9_Witness ==
    /\ ticks = 90
    /\ current_mode = "BEARING_WEAR"
    /\ origin.sim.RMS = 0
    /\ \A c \in FastChannels :
          /\ Dist(sim_state, c) > 0
          /\ 100 * Dist(sim_state, c) <= Dist(origin.sim, c)
          /\ 100 * Dist(sim_state, c) > Dist(origin.sim, c) - 20 * Dist(sim_state, c)

(***************************************************************************)
(* Two requests served at once (SpecConc).  The development server hands   *)
(* each request to a thread of its own and the handler takes no lock, so   *)
(* the threads interleave between any two accesses to the globals.  Each   *)
(* action below is one access (or one run of code that touches only        *)
(* locals), named after the line it belongs to.                            *)
(***************************************************************************)
\* One tick served alone, as a function of the globals and the request's inputs.
SerialTick(g, in) ==
    LET sm == StateMachine(g.mode, g.last, in.now, in.draw)
    IN  Globals(sm.mode, sm.last, DriftStep(g.sim, get_target_state(sm.mode), in.noise))

TickInput(now, noise, draw) == [now |-> now, noise |-> noise, draw |-> draw]

ConcDts == {1, 61}

ConcNoiseDraws == {NoiseOf(1, -1)}

\* random.random() <= 0.70, and > 0.70 with either scenario chosen.
ConcModeDraws ==
    { [r |-> 70, choice |-> "BEARING_WEAR"], [r |-> 71, choice |-> "BEARING_WEAR"],
      [r |-> 71, choice |-> "UNBALANCE"] }

InitConc ==
    /\ origin = ColdGlobals
    /\ clock = 0
    /\ current_mode = origin.mode
    /\ last_state_change = origin.last
    /\ sim_state = origin.sim
    /\ model = FALSE
    /\ resp = NoResponse
    /\ ticks = 0
    /\ pc = IdleThreads
    /\ loc = NoLocals

Goto(self, label) == pc' = [pc EXCEPT ![self] = label]

\* now = time.time()  (line 79); the request's noise draws are fixed here.
L79(self) ==
    /\ pc[self] = "idle"
    /\ \E dt \in ConcDts, noise \in ConcNoiseDraws :
         /\ clock' = clock + dt
         /\ loc' = [loc EXCEPT ![self].now = clock + dt, ![self].noise = noise]
    /\ Goto(self, "L82")
    /\ UNCHANGED <<current_mode, last_state_change, sim_state, model, resp, ticks, origin>>

\* if current_mode == "BOOT_SEQUENCE": if now - boot_start_time > 10  (lines 82-83)
L82(self) ==
    /\ pc[self] = "L82"
    /\ IF current_mode = "BOOT_SEQUENCE"
       THEN IF BootElapsed(loc[self].now) THEN Goto(self, "L84") ELSE Goto(self, "L98")
       ELSE Goto(self, "L88")
    /\ UNCHANGED <<clock, current_mode, last_state_change, sim_state, model, resp, ticks,
                   loc, origin>>

\* current_mode = "HEALTHY"  (line 84)
L84(self) ==
    /\ pc[self] = "L84"
    /\ current_mode' = "HEALTHY"
    /\ Goto(self, "L85")
    /\ UNCHANGED <<clock, last_state_change, sim_state, model, resp, ticks, loc, origin>>

\* last_state_change = now  (line 85)
L85(self) ==
    /\ pc[self] = "L85"
    /\ last_state_change' = loc[self].now
    /\ Goto(self, "L98")
    /\ UNCHANGED <<clock, current_mode, sim_state, model, resp, ticks, loc, origin>>

\* elif now - last_state_change > 60  (line 88)
L88(self) ==
    /\ pc[self] = "L88"
    /\ IF DwellElapsed(last_state_change, loc[self].now)
       THEN Goto(self, "L90") ELSE Goto(self, "L98")
    /\ UNCHANGED <<clock, current_mode, last_state_change, sim_state, model, resp, ticks,
                   loc, origin>>

\* the draw and the assignment to current_mode  (lines 90-94)
L90(self) ==
    /\ pc[self] = "L90"
    /\ \E draw \in ConcModeDraws :
         /\ current_mode' = DrawnMode(draw)
         /\ loc' = [loc EXCEPT ![self].draw = draw, ![self].drew = TRUE]
    /\ Goto(self, "L95")
    /\ UNCHANGED <<clock, last_state_change, sim_state, model, resp, ticks, origin>>

\* last_state_change = now  (line 95)
L95(self) ==
    /\ pc[self] = "L95"
    /\ last_state_change' = loc[self].now
    /\ Goto(self, "L98")
    /\ UNCHANGED <<clock, current_mode, sim_state, model, resp, ticks, loc, origin>>

\* targets = get_target_state(current_mode)  (line 98)
L98(self) ==
    /\ pc[self] = "L98"
    /\ loc' = [loc EXCEPT ![self].targets = get_target_state(current_mode),
                          ![self].chan = 1]
    /\ Goto(self, "load")
    /\ UNCHANGED <<clock, current_mode, last_state_change, sim_state, model, resp, ticks,
                   origin>>

ChanTarget(self, c) == IF c = "FanSpeed" THEN loc[self].targets.Speed ELSE loc[self].targets[c]

\* sim_state[c] += ...: the augmented assignment first loads the old value,
LoadOld(self) ==
    /\ pc[self] = "load"
    /\ loc' = [loc EXCEPT ![self].old = sim_state[ChannelOrder[loc[self].chan]]]
    /\ Goto(self, "eval")
    /\ UNCHANGED <<clock, current_mode, last_state_change, sim_state, model, resp, ticks,
                   origin>>

\* then evaluates the right-hand side, which reads sim_state[c] again,
EvalRhs(self) ==
    /\ pc[self] = "eval"
    /\ LET c == ChannelOrder[loc[self].chan]
           x == sim_state[c]
       IN  loc' = [loc EXCEPT ![self].acc =
                       loc[self].old
                         + (Drift(x, ChanTarget(self, c), GainOf(c), loc[self].noise[c]) - x)]
    /\ Goto(self, "store")
    /\ UNCHANGED <<clock, current_mode, last_state_change, sim_state, model, resp, ticks,
                   origin>>

\* then stores the sum  (lines 102-105, one channel after the other).
StoreNew(self) ==
    /\ pc[self] = "store"
    /\ sim_state' = [sim_state EXCEPT ![ChannelOrder[loc[self].chan]] = loc[self].acc]
    /\ IF loc[self].chan < Len(ChannelOrder)
       THEN /\ loc' = [loc EXCEPT ![self].chan = loc[self].chan + 1,
                                  ![self].old = 0, ![self].acc = 0]
            /\ Goto(self, "load")
       ELSE /\ loc' = [loc EXCEPT ![self].chan = 1, ![self].old = 0, ![self].acc = 0]
            /\ Goto(self, "L108")
    /\ UNCHANGED <<clock, current_mode, last_state_change, model, resp, ticks, origin>>

\* clamping, inference and the response  (lines 107-159)
L108(self) ==
    /\ pc[self] = "L108"
    /\ \E outcome \in OutcomesFor(current_mode, model) :
         resp' = Response(current_mode, model, outcome, sim_state, loc[self].now,
                          loc[self].targets, resp.before)
    /\ ticks' = ticks + 1
    /\ Goto(self, "done")
    /\ UNCHANGED <<clock, current_mode, last_state_change, sim_state, model, loc, origin>>

NextConc ==
    \E self \in Threads :
        \/ L79(self) \/ L82(self) \/ L84(self) \/ L85(self) \/ L88(self) \/ L90(self)
        \/ L95(self) \/ L98(self) \/ LoadOld(self) \/ EvalRhs(self) \/ StoreNew(self)
        \/ L108(self)

SpecConc == InitConc /\ [][NextConc]_vars

AllDone == \A t \in Threads : pc[t] = "done"

\* The draws a request made, or any draw if it made none.
DrawsOf(t) == IF loc[t].drew THEN {loc[t].draw} ELSE ConcModeDraws

SerialOutcomes ==
    { SerialTick(SerialTick(origin, TickInput(loc[a].now, loc[a].noise, da)),
                 TickInput(loc[b].now, loc[b].noise, db)) :
        <<a, b, da, db>> \in
            { q \in Threads \X Threads \X ConcModeDraws \X ConcModeDraws :
                q[1] # q[2] /\ q[3] \in DrawsOf(q[1]) /\ q[4] \in DrawsOf(q[2]) } }

\* C8: two requests served at once leave the mode, the dwell timer and sim_state
\* as serving them one after the other, in one order or the other, would.
C8_Serializable ==
    AllDone => Globals(current_mode, last_state_change, sim_state) \in SerialOutcomes

=============================================================================
